---------------------------- MODULE Spec2Model ----------------------------
(***************************************************************************)
(* A model of the Gemini Autocorrect tool: the masking codec, the          *)
(* token-level diff and selective merge of utils.py, the provider call and *)
(* response sanitising of model.py, and the session of app.py.             *)
(*                                                                         *)
(* A text is a sequence of characters, each a one-character string (the    *)
(* backtick is written BT), so that splitting, joining, searching and      *)
(* replacing are computed on characters as the Python string methods       *)
(* compute them.                                                           *)
(***************************************************************************)
EXTENDS Integers, Sequences, FiniteSets, TLC

VARIABLES
    mText,      \* masking codec: the text handed to mask_code_blocks
    mMasked,    \* masking codec: the masked text
    mBlocks,    \* masking codec: the block map, in insertion order
    mOut,       \* masking codec: the text returned by unmask_code_blocks
    mPc,        \* masking codec: "idle", "input", "masked", "done"; "text", "once", "twice"
    dA,         \* diff and merge: the original text
    dB,         \* diff and merge: the corrected text
    dEdits,     \* diff and merge: the list returned by diff_pairs
    dMask,      \* diff and merge: the accept mask handed to the merge
    dOut,       \* diff and merge: the text returned by apply_selected_edits
    dPc,        \* diff and merge: "idle", "input", "diffed" or "applied"
    pApiKey,    \* provider: the api_key handed to get_gemini_analysis
    pBehaviour, \* provider: what each candidate model does when called
    pRaw,       \* provider: the text a model that answers returns
    pResult,    \* provider: how get_gemini_analysis ended
    pPc,        \* provider: "idle", "start" or "done"
    user_text,  \* session: st.session_state["user_text"], the editor's text
    history,    \* session: st.session_state["history"]
    last_suggestions, \* session: st.session_state["last_suggestions"]
    results,    \* session: the results the last run of the script displayed
    realtime,   \* session: the Real-time Suggestions toggle
    apiKey,     \* session: api_key, from the environment or the sidebar
    pending,    \* session: the last run ended in st.rerun()
    crashed,    \* session: the last run ended in an uncaught exception
    lastApply,  \* session: what Apply Suggestion wrote in the last run
    applied,    \* session: the corrected texts Apply Suggestion has applied
    lastRestore, \* session: the version Restore took in the last run, 0 if none
    request,    \* session: how the correction request of the last run went
    apiCalls,   \* session: the models the last run called, in order
    sPc         \* session: "idle" or "session"

maskVars == <<mText, mMasked, mBlocks, mOut, mPc>>

diffVars == <<dA, dB, dEdits, dMask, dOut, dPc>>

provVars == <<pApiKey, pBehaviour, pRaw, pResult, pPc>>

sessVars ==
    <<user_text, history, last_suggestions, results, realtime, apiKey,
      pending, crashed, lastApply, applied, lastRestore, request, apiCalls,
      sPc>>

vars == <<maskVars, diffVars, provVars, sessVars>>

\* What a step of one part leaves alone: the variables of the other parts.
notMaskVars == <<diffVars, provVars, sessVars>>
notDiffVars == <<maskVars, provVars, sessVars>>
notProvVars == <<maskVars, diffVars, sessVars>>
notSessVars == <<maskVars, diffVars, provVars>>

--------------------------------------------------------------------------
(* Bounds of the model.                                                    *)

\* The longest masking input, counted in fragments of MaskFragments.
MaxFrags == 4

\* The most tokens of a text handed to the diff.
MaxTokens == 3

\* The longest accept mask handed to the merge.
MaxMaskLen == 2

\* The most items of a JSON list in a modelled provider response.
MaxItems == 2

\* The length of the history up to which the session goes on.
MaxHistory == 3

\* The length of the history up to which the session over a long history
\* goes on.
MaxVersions == 7

--------------------------------------------------------------------------
(* Each specification below runs one part of the program; the variables of *)
(* the other parts rest at these values.                                   *)

MaskIdle ==
    /\ mText = <<>>
    /\ mMasked = <<>>
    /\ mBlocks = <<>>
    /\ mOut = <<>>
    /\ mPc = "idle"

DiffIdle ==
    /\ dA = <<>>
    /\ dB = <<>>
    /\ dEdits = <<>>
    /\ dMask = <<>>
    /\ dOut = <<>>
    /\ dPc = "idle"

\* How get_gemini_analysis ended: by raising error, or by returning the
\* suggestions, after calling the models of calls in that order.
Ended(raised, error, suggestions, calls) ==
    [raised |-> raised, error |-> error, suggestions |-> suggestions,
     calls |-> calls]

NoError == [type |-> "None", last |-> "None"]

ProvIdle ==
    /\ pApiKey = <<>>
    /\ pBehaviour = <<>>
    /\ pRaw = <<>>
    /\ pResult = Ended(FALSE, NoError, <<>>, <<>>)
    /\ pPc = "idle"

SessIdle ==
    /\ user_text = <<>>
    /\ history = <<>>
    /\ last_suggestions = <<>>
    /\ results = <<>>
    /\ realtime = FALSE
    /\ apiKey = <<>>
    /\ pending = FALSE
    /\ crashed = FALSE
    /\ lastApply = [from |-> <<>>, corrected |-> <<>>, written |-> FALSE]
    /\ applied = {}
    /\ lastRestore = 0
    /\ request = "none"
    /\ apiCalls = <<>>
    /\ sPc = "idle"

--------------------------------------------------------------------------
(* Characters and Python's string primitives.                              *)

\* The backtick character (a string of the module cannot hold one).
BT == "BACKTICK"

\* The three backticks that open and close a fenced block.
Fence == <<BT, BT, BT>>

\* str.isspace for the characters of the model.
IsSpace(ch) == ch \in {" ", "\n", "\t", "\r"}

\* s[i:] starts with p (1-based i).
StartsWithAt(s, p, i) ==
    /\ i >= 1
    /\ i + Len(p) - 1 <= Len(s)
    /\ SubSeq(s, i, i + Len(p) - 1) = p

\* The least element of a set of numbers, or d when it is empty.
MinOr(S, d) == IF S = {} THEN d ELSE CHOOSE k \in S : \A h \in S : k <= h

\* The greatest element of a set of numbers, or d when it is empty.
MaxOr(S, d) == IF S = {} THEN d ELSE CHOOSE k \in S : \A h \in S : h <= k

\* str.find(p, i): the least position >= i where p occurs in s, 0 if none.
Find(s, p, i) == MinOr({k \in i..Len(s) : StartsWithAt(s, p, k)}, 0)

\* p occurs in s.
Contains(s, p) == \E k \in 1..(Len(s) + 1) : StartsWithAt(s, p, k)

RECURSIVE ReplaceFrom(_, _, _, _)
\* The replacement from position i on when the next occurrence of old is
\* at position k (0 if there is none).
ReplaceAt(s, old, new, i, k) ==
    IF k = 0 THEN SubSeq(s, i, Len(s))
    ELSE SubSeq(s, i, k - 1) \o new \o ReplaceFrom(s, old, new, k + Len(old))

\* The replacement from position i on: the text up to the next occurrence
\* of old, new in its place, and the replacement of what follows it.
ReplaceFrom(s, old, new, i) == ReplaceAt(s, old, new, i, Find(s, old, i))

\* str.replace(old, new) for a non-empty old: every non-overlapping
\* occurrence, scanning from the left.
Replace(s, old, new) == ReplaceFrom(s, old, new, 1)

\* One decimal digit as a character.
DigitChar(d) ==
    CASE d = 0 -> "0" [] d = 1 -> "1" [] d = 2 -> "2" [] d = 3 -> "3"
      [] d = 4 -> "4" [] d = 5 -> "5" [] d = 6 -> "6" [] d = 7 -> "7"
      [] d = 8 -> "8" [] d = 9 -> "9"

RECURSIVE Decimal(_)
\* str(n) for n >= 0, as the f-string formats len(blocks).
Decimal(n) ==
    IF n < 10 THEN <<DigitChar(n)>>
    ELSE Decimal(n \div 10) \o <<DigitChar(n % 10)>>

\* All sequences over S of length at most n.
SeqsUpTo(S, n) == UNION {[1..k -> S] : k \in 0..n}

RECURSIVE Concat(_)
\* "".join(parts)
Concat(parts) ==
    IF parts = <<>> THEN <<>> ELSE Head(parts) \o Concat(Tail(parts))

--------------------------------------------------------------------------
(* utils.py: the masking codec.                                            *)

\* f"[[[CODE_BLOCK_{n}]]]"
PlaceholderKey(n) ==
    <<"[", "[", "[", "C", "O", "D", "E", "_", "B", "L", "O", "C", "K", "_">>
        \o Decimal(n) \o <<"]", "]", "]">>

\* The match that opens at position k, as <<start, end>>; <<0, 0>> when k
\* is 0.
CodeBlockAt(s, k) == IF k = 0 THEN <<0, 0>> ELSE <<k, Find(s, Fence, k + 3) + 2>>

\* CODE_BLOCK_PATTERN.search from position i: the leftmost position at which
\* a fence opens and a later fence closes it (non-greedy, DOTALL), as
\* <<start, end>>; <<0, 0>> when there is no match.
CODE_BLOCK_PATTERN(s, i) ==
    CodeBlockAt(s, MinOr({k \in i..Len(s) :
                            StartsWithAt(s, Fence, k) /\ Find(s, Fence, k + 3) # 0},
                         0))

RECURSIVE MaskFrom(_, _, _)
\* The text before the match m with the key in its place, then the masked
\* rest; the blocks are those of the rest.
MaskedWith(s, i, m, key, rest) ==
    [masked |-> SubSeq(s, i, m[1] - 1) \o key \o rest.masked,
     blocks |-> rest.blocks]

\* repl(m): the block of the match m is stored under the key and the rest
\* of the text is masked with the blocks so far.
MaskMatch(s, i, m, key, blocks) ==
    MaskedWith(s, i, m, key,
               MaskFrom(s, m[2] + 1,
                        Append(blocks, [key |-> key,
                                        block |-> SubSeq(s, m[1], m[2])])))

\* The masking from position i when m is the next match.
MaskNextMatch(s, i, m, blocks) ==
    IF m[1] = 0
    THEN [masked |-> SubSeq(s, i, Len(s)), blocks |-> blocks]
    ELSE MaskMatch(s, i, m, PlaceholderKey(Len(blocks)), blocks)

\* CODE_BLOCK_PATTERN.sub(repl, text) from position i, with the blocks
\* found so far: every match is replaced by the key of its discovery order.
MaskFrom(s, i, blocks) == MaskNextMatch(s, i, CODE_BLOCK_PATTERN(s, i), blocks)

mask_code_blocks(text) == MaskFrom(text, 1, <<>>)

RECURSIVE UnmaskFrom(_, _, _)
UnmaskFrom(text, blocks, n) ==
    IF n > Len(blocks) THEN text
    ELSE UnmaskFrom(Replace(text, blocks[n].key, blocks[n].block), blocks, n + 1)

\* for k, v in blocks.items(): text = text.replace(k, v)
unmask_code_blocks(text, blocks) == UnmaskFrom(text, blocks, 1)

--------------------------------------------------------------------------
(* utils.py: tokens.                                                       *)

\* s[i1:i2] with Python's 0-based, half-open indices.
Slice(s, i1, i2) == SubSeq(s, i1 + 1, i2)

RECURSIVE SplitFrom(_, _, _)
\* str.split() from position i, cur being the token read so far: tokens
\* are the maximal runs of non-whitespace, and no token is empty.
SplitFrom(s, i, cur) ==
    IF i > Len(s) THEN (IF cur = <<>> THEN <<>> ELSE <<cur>>)
    ELSE IF IsSpace(s[i])
         THEN (IF cur = <<>> THEN <<>> ELSE <<cur>>) \o SplitFrom(s, i + 1, <<>>)
         ELSE SplitFrom(s, i + 1, Append(cur, s[i]))

\* text.split()
Split(s) == SplitFrom(s, 1, <<>>)

RECURSIVE JoinSpace(_)
\* " ".join(tokens)
JoinSpace(tokens) ==
    IF tokens = <<>> THEN <<>>
    ELSE IF Len(tokens) = 1 THEN tokens[1]
    ELSE tokens[1] \o <<" ">> \o JoinSpace(Tail(tokens))

--------------------------------------------------------------------------
(* difflib.SequenceMatcher(None, a, b), as utils.py calls it: no junk      *)
(* test, and sequences far below the 200 elements at which autojunk sets   *)
(* in. Indices are Python's: 0-based, ranges half-open.                    *)

\* a[i:i+k] == b[j:j+k]
SameRun(a, b, i, j, k) == Slice(a, i, i + k) = Slice(b, j, j + k)

\* Of the common runs <<i, j, k>>, the longest, then earliest in a, then
\* earliest in b; <<alo, blo, 0>> when there is none.
BestRun(runs, alo, blo) ==
    IF runs = {} THEN <<alo, blo, 0>>
    ELSE CHOOSE m \in runs : \A n \in runs :
            \/ m[3] > n[3]
            \/ m[3] = n[3] /\ m[1] < n[1]
            \/ m[3] = n[3] /\ m[1] = n[1] /\ m[2] <= n[2]

\* SequenceMatcher.find_longest_match(alo, ahi, blo, bhi): of the longest
\* blocks common to a[alo:ahi] and b[blo:bhi], the one that starts earliest
\* in a and, of those, earliest in b; <<alo, blo, 0>> when nothing matches.
find_longest_match(a, b, alo, ahi, blo, bhi) ==
    BestRun({m \in (alo..(ahi - 1)) \X (blo..(bhi - 1)) \X (1..(ahi - alo)) :
                /\ m[1] + m[3] <= ahi
                /\ m[2] + m[3] <= bhi
                /\ SameRun(a, b, m[1], m[2], m[3])},
            alo, blo)

RECURSIVE MatchingBlocksIn(_, _, _, _, _, _)
\* The blocks of a region whose longest match is x = <<i, j, k>>: those of
\* the region to its left, x, and those of the region to its right.
MatchingBlocksAround(a, b, alo, ahi, blo, bhi, x) ==
    IF x[3] = 0 THEN <<>>
    ELSE (IF alo < x[1] /\ blo < x[2]
          THEN MatchingBlocksIn(a, b, alo, x[1], blo, x[2]) ELSE <<>>)
         \o <<x>>
         \o (IF x[1] + x[3] < ahi /\ x[2] + x[3] < bhi
             THEN MatchingBlocksIn(a, b, x[1] + x[3], ahi, x[2] + x[3], bhi)
             ELSE <<>>)

\* The loop of get_matching_blocks over its queue, then its sort: the
\* longest match of the region, the blocks of the region to its left before
\* it and those of the region to its right after it.
MatchingBlocksIn(a, b, alo, ahi, blo, bhi) ==
    MatchingBlocksAround(a, b, alo, ahi, blo, bhi,
                         find_longest_match(a, b, alo, ahi, blo, bhi))

RECURSIVE CollapseAdjacent(_, _, _)
\* The second loop of get_matching_blocks: a block that starts where the
\* block before it ends, in a and in b, is merged into it. cur is
\* <<i1, j1, k1>>.
CollapseAdjacent(blocks, n, cur) ==
    IF n > Len(blocks)
    THEN (IF cur[3] # 0 THEN <<cur>> ELSE <<>>)
    ELSE IF cur[1] + cur[3] = blocks[n][1] /\ cur[2] + cur[3] = blocks[n][2]
         THEN CollapseAdjacent(blocks, n + 1,
                               <<cur[1], cur[2], cur[3] + blocks[n][3]>>)
         ELSE (IF cur[3] # 0 THEN <<cur>> ELSE <<>>)
              \o CollapseAdjacent(blocks, n + 1, blocks[n])

\* The matching blocks without the closing sentinel.
get_matching_blocks_NoSentinel(a, b) ==
    CollapseAdjacent(MatchingBlocksIn(a, b, 0, Len(a), 0, Len(b)), 1, <<0, 0, 0>>)

\* SequenceMatcher.get_matching_blocks(): the collapsed blocks, closed by
\* the sentinel <<len(a), len(b), 0>>.
get_matching_blocks(a, b) ==
    Append(CollapseAdjacent(MatchingBlocksIn(a, b, 0, Len(a), 0, Len(b)),
                            1, <<0, 0, 0>>),
           <<Len(a), Len(b), 0>>)

\* An opcode (tag, i1, i2, j1, j2).
Opcode(tag, i1, i2, j1, j2) ==
    [tag |-> tag, i1 |-> i1, i2 |-> i2, j1 |-> j1, j2 |-> j2]

\* The tag of the gap between a[:i], b[:j] and the block at (ai, bj); ""
\* when there is no gap.
GapTag(i, j, ai, bj) ==
    IF i < ai /\ j < bj THEN "replace"
    ELSE IF i < ai THEN "delete"
    ELSE IF j < bj THEN "insert"
    ELSE ""

RECURSIVE OpcodesFrom(_, _, _, _)
\* The opcodes of the block <<ai, bj, size>> at position n and of the gap
\* before it, then those of the blocks after it.
OpcodesAt(blocks, n, i, j, ai, bj, size) ==
    (IF GapTag(i, j, ai, bj) # ""
     THEN <<Opcode(GapTag(i, j, ai, bj), i, ai, j, bj)>> ELSE <<>>)
    \o (IF size # 0
        THEN <<Opcode("equal", ai, ai + size, bj, bj + size)>>
        ELSE <<>>)
    \o OpcodesFrom(blocks, n + 1, ai + size, bj + size)

\* The loop of get_opcodes from block n on, with a[:i] and b[:j] done.
OpcodesFrom(blocks, n, i, j) ==
    IF n > Len(blocks) THEN <<>>
    ELSE OpcodesAt(blocks, n, i, j, blocks[n][1], blocks[n][2], blocks[n][3])

\* SequenceMatcher(None, a, b).get_opcodes()
get_opcodes(a, b) == OpcodesFrom(get_matching_blocks(a, b), 1, 0, 0)

--------------------------------------------------------------------------
(* utils.py: diff_pairs and apply_selected_edits.                          *)

\* The edit diff_pairs appends for a non-equal opcode.
EditOf(op, o, c) ==
    [type |-> op.tag,
     before_tokens |-> Slice(o, op.i1, op.i2),
     after_tokens |-> Slice(c, op.j1, op.j2),
     i1 |-> op.i1, i2 |-> op.i2,
     j1 |-> op.j1, j2 |-> op.j2]

RECURSIVE EditsFrom(_, _, _, _)
\* The loop of diff_pairs: equal opcodes are skipped, every other opcode
\* gives one edit.
EditsFrom(ops, n, o, c) ==
    IF n > Len(ops) THEN <<>>
    ELSE (IF ops[n].tag = "equal" THEN <<>> ELSE <<EditOf(ops[n], o, c)>>)
         \o EditsFrom(ops, n + 1, o, c)

\* The edits between the token lists o and c.
TokenEdits(o, c) == EditsFrom(get_opcodes(o, c), 1, o, c)

diff_pairs(original, corrected) == TokenEdits(Split(original), Split(corrected))

\* A missing mask entry read as accepted.
AcceptAt_DefaultTrue(accept_mask, mask_idx) ==
    IF mask_idx < Len(accept_mask) THEN accept_mask[mask_idx + 1] ELSE TRUE

\* accept_mask[mask_idx] if mask_idx < len(accept_mask) else False
AcceptAt(accept_mask, mask_idx) ==
    IF mask_idx < Len(accept_mask) THEN accept_mask[mask_idx + 1] ELSE FALSE

\* An accepted delete that keeps its tokens.
EmitEdit_KeepDeleted(op, accept, o, c) ==
    IF op.tag \in {"replace", "insert"}
    THEN (IF accept THEN Slice(c, op.j1, op.j2) ELSE Slice(o, op.i1, op.i2))
    ELSE Slice(o, op.i1, op.i2)

\* A rejected replace or insert that emits the candidate tokens.
EmitEdit_RejectTakesNew(op, accept, o, c) ==
    IF op.tag \in {"replace", "insert"}
    THEN Slice(c, op.j1, op.j2)
    ELSE IF op.tag = "delete"
         THEN (IF accept THEN <<>> ELSE Slice(o, op.i1, op.i2))
         ELSE <<>>

\* What apply_selected_edits appends to out for a non-equal opcode.
EmitEdit(op, accept, o, c) ==
    IF op.tag \in {"replace", "insert"}
    THEN (IF accept THEN Slice(c, op.j1, op.j2) ELSE Slice(o, op.i1, op.i2))
    ELSE IF op.tag = "delete"
         THEN (IF accept THEN <<>> ELSE Slice(o, op.i1, op.i2))
         ELSE <<>>

RECURSIVE ApplyFrom(_, _, _, _, _, _)
\* The loop of apply_selected_edits from opcode n on: the tokens appended
\* to out.
ApplyFrom(ops, n, mask_idx, accept_mask, o, c) ==
    IF n > Len(ops) THEN <<>>
    ELSE IF ops[n].tag = "equal"
         THEN Slice(o, ops[n].i1, ops[n].i2)
              \o ApplyFrom(ops, n + 1, mask_idx, accept_mask, o, c)
         ELSE EmitEdit(ops[n], AcceptAt(accept_mask, mask_idx), o, c)
              \o ApplyFrom(ops, n + 1, mask_idx + 1, accept_mask, o, c)

\* The merge of the token lists o and c under the mask.
MergeTokens(o, c, accept_mask) ==
    JoinSpace(ApplyFrom(get_opcodes(o, c), 1, 0, accept_mask, o, c))

apply_selected_edits(original, corrected, accept_mask) ==
    MergeTokens(Split(original), Split(corrected), accept_mask)

--------------------------------------------------------------------------
(* json.loads, on the JSON the modelled responses can hold: objects,       *)
(* lists, strings without escapes, numbers without an exponent, and the    *)
(* literals null, true and false. A number is kept exactly, as num / den.  *)
(* The parser is written as a chain of operators, each taking what the     *)
(* ones before it have read.                                               *)

Quote == "\""

JNone == [t |-> "none"]
JBool(b) == [t |-> "bool", b |-> b]
JNum(n, d) == [t |-> "num", num |-> n, den |-> d]
JStr(chars) == [t |-> "str", s |-> chars]
JList(items) == [t |-> "list", items |-> items]
\* pairs: the members in source order, each [k |-> key, v |-> value].
JObj(pairs) == [t |-> "obj", pairs |-> pairs]

\* The result of a parse step: the value and the position after it.
Parsed(v, next) == [ok |-> TRUE, v |-> v, next |-> next]
ParseError == [ok |-> FALSE, v |-> JNone, next |-> 0]

IsDigit(ch) == ch \in {"0", "1", "2", "3", "4", "5", "6", "7", "8", "9"}

DigitVal(ch) ==
    CASE ch = "0" -> 0 [] ch = "1" -> 1 [] ch = "2" -> 2 [] ch = "3" -> 3
      [] ch = "4" -> 4 [] ch = "5" -> 5 [] ch = "6" -> 6 [] ch = "7" -> 7
      [] ch = "8" -> 8 [] ch = "9" -> 9

\* The whitespace json skips between tokens.
IsJsonWs(ch) == ch \in {" ", "\t", "\n", "\r"}

\* The first position from i on that holds no JSON whitespace.
SkipWs(s, i) == MinOr({k \in i..Len(s) : ~IsJsonWs(s[k])}, Len(s) + 1)

\* The last position of the run of digits that starts at i.
DigitRunEnd(s, i) == MaxOr({k \in i..Len(s) : \A h \in i..k : IsDigit(s[h])}, i)

RECURSIVE DigitsValue(_)
\* int(digits)
DigitsValue(ds) ==
    IF ds = <<>> THEN 0
    ELSE 10 * DigitsValue(SubSeq(ds, 1, Len(ds) - 1)) + DigitVal(ds[Len(ds)])

RECURSIVE Pow10(_)
Pow10(n) == IF n = 0 THEN 1 ELSE 10 * Pow10(n - 1)

\* The number with sign neg, integer digits s[p..intEnd] and, when
\* fracEnd > intEnd, fraction digits s[intEnd+2..fracEnd].
NumberOf(s, neg, p, intEnd, fracEnd) ==
    Parsed(JNum((IF neg THEN 0 - 1 ELSE 1)
                   * DigitsValue(SubSeq(s, p, intEnd)
                                   \o SubSeq(s, intEnd + 2, fracEnd)),
                IF fracEnd > intEnd THEN Pow10(fracEnd - intEnd - 1) ELSE 1),
           fracEnd + 1)

\* (\.\d+)? after the integer part that ends at intEnd.
NumberFraction(s, neg, p, intEnd) ==
    IF intEnd + 2 <= Len(s) /\ s[intEnd + 1] = "." /\ IsDigit(s[intEnd + 2])
    THEN NumberOf(s, neg, p, intEnd, DigitRunEnd(s, intEnd + 2))
    ELSE NumberOf(s, neg, p, intEnd, intEnd)

\* (0|[1-9]\d*) at position p.
NumberInteger(s, neg, p) ==
    IF p > Len(s) \/ ~IsDigit(s[p]) THEN ParseError
    ELSE NumberFraction(s, neg, p, IF s[p] = "0" THEN p ELSE DigitRunEnd(s, p))

\* A JSON number at position i: -?(0|[1-9]\d*)(\.\d+)?
ParseNumber(s, i) ==
    IF s[i] = "-" THEN NumberInteger(s, TRUE, i + 1) ELSE NumberInteger(s, FALSE, i)

\* The string from the quote at i to the quote at close.
StringTo(s, i, close) ==
    IF close = 0 THEN ParseError
    ELSE IF \E k \in (i + 1)..(close - 1) : s[k] \in {"\n", "\t", "\r"}
         THEN ParseError
         ELSE Parsed(JStr(SubSeq(s, i + 1, close - 1)), close + 1)

\* A JSON string at position i (s[i] is the opening quote): up to the next
\* quote, and no control character inside.
ParseString(s, i) == StringTo(s, i, Find(s, <<Quote>>, i + 1))

RECURSIVE ParseValue(_, _)
RECURSIVE ParseElements(_, _, _)
RECURSIVE ParseMembers(_, _, _)

\* After the element v of a list, at position j: the list ends, or a comma
\* leads to the next element.
ElementsNext(s, v, j, acc) ==
    IF j > Len(s) THEN ParseError
    ELSE IF s[j] = "]" THEN Parsed(JList(Append(acc, v.v)), j + 1)
    ELSE IF s[j] = "," THEN ParseElements(s, SkipWs(s, j + 1), Append(acc, v.v))
    ELSE ParseError

ElementsAfter(s, v, acc) ==
    IF ~v.ok THEN ParseError ELSE ElementsNext(s, v, SkipWs(s, v.next), acc)

\* The rest of a list from position i, which holds a value: the values
\* read so far are in acc.
ParseElements(s, i, acc) == ElementsAfter(s, ParseValue(s, i), acc)

\* After a member of an object, at position j, pairs being the members so
\* far: the object ends, or a comma leads to the next key.
MembersNext(s, j, pairs) ==
    IF j > Len(s) THEN ParseError
    ELSE IF s[j] = "}" THEN Parsed(JObj(pairs), j + 1)
    ELSE IF s[j] = "," THEN ParseMembers(s, SkipWs(s, j + 1), pairs)
    ELSE ParseError

MembersValue(s, k, v, acc) ==
    IF ~v.ok THEN ParseError
    ELSE MembersNext(s, SkipWs(s, v.next), Append(acc, [k |-> k.v.s, v |-> v.v]))

\* After the key k, at position c: a colon and the value.
MembersColon(s, k, c, acc) ==
    IF c > Len(s) \/ s[c] # ":" THEN ParseError
    ELSE MembersValue(s, k, ParseValue(s, SkipWs(s, c + 1)), acc)

MembersKey(s, k, acc) ==
    IF ~k.ok THEN ParseError ELSE MembersColon(s, k, SkipWs(s, k.next), acc)

\* The rest of an object from position i, which holds a key.
ParseMembers(s, i, acc) ==
    IF i > Len(s) \/ s[i] # Quote THEN ParseError
    ELSE MembersKey(s, ParseString(s, i), acc)

\* A list whose first position after the bracket and whitespace is j.
ListAt(s, j) ==
    IF j <= Len(s) /\ s[j] = "]" THEN Parsed(JList(<<>>), j + 1)
    ELSE ParseElements(s, j, <<>>)

\* An object whose first position after the brace and whitespace is j.
ObjectAt(s, j) ==
    IF j <= Len(s) /\ s[j] = "}" THEN Parsed(JObj(<<>>), j + 1)
    ELSE ParseMembers(s, j, <<>>)

\* The JSON value that starts at position i.
ParseValue(s, i) ==
    IF i > Len(s) THEN ParseError
    ELSE IF s[i] = Quote THEN ParseString(s, i)
    ELSE IF s[i] = "[" THEN ListAt(s, SkipWs(s, i + 1))
    ELSE IF s[i] = "{" THEN ObjectAt(s, SkipWs(s, i + 1))
    ELSE IF StartsWithAt(s, <<"n", "u", "l", "l">>, i) THEN Parsed(JNone, i + 4)
    ELSE IF StartsWithAt(s, <<"t", "r", "u", "e">>, i) THEN Parsed(JBool(TRUE), i + 4)
    ELSE IF StartsWithAt(s, <<"f", "a", "l", "s", "e">>, i)
         THEN Parsed(JBool(FALSE), i + 5)
    ELSE IF s[i] = "-" \/ IsDigit(s[i]) THEN ParseNumber(s, i)
    ELSE ParseError

\* The value v stands if only whitespace follows it.
LoadsEnd(s, v) == IF v.ok /\ SkipWs(s, v.next) > Len(s) THEN v ELSE ParseError

\* json.loads(s): one value with whitespace around it and nothing else;
\* ParseError stands for the exception json.loads raises.
json_loads(s) == LoadsEnd(s, ParseValue(s, SkipWs(s, 1)))

--------------------------------------------------------------------------
(* model.py: _json_from_text.                                              *)

\* The closing character of a group that opens with ch.
Closer(ch) == IF ch = "{" THEN "}" ELSE "]"

\* The first position from i on that holds no whitespace (\s*).
SkipSpace(s, i) == MinOr({k \in i..Len(s) : ~IsSpace(s[k])}, Len(s) + 1)

\* The last position of s that holds ch, is after position g and, when
\* tailed, is followed by whitespace and a fence; 0 if none. This is where
\* the greedy .* of (\{.*\}|\[.*\]) ends its group.
LastCloser(s, g, ch, tailed) ==
    MaxOr({q \in (g + 1)..Len(s) :
              /\ s[q] = ch
              /\ tailed => StartsWithAt(s, Fence, SkipSpace(s, q + 1))}, 0)

\* Where the group of the fence pattern starts when the pattern is tried at
\* position p: after the fence, an optional "json" and whitespace.
FenceGroupStart(s, p) ==
    SkipSpace(s, IF StartsWithAt(s, <<"j", "s", "o", "n">>, p + 3)
                 THEN p + 7 ELSE p + 3)

\* The group that starts at g closes before whitespace and a fence.
FenceGroupAt(s, g) ==
    /\ g <= Len(s)
    /\ s[g] \in {"{", "["}
    /\ LastCloser(s, g, Closer(s[g]), TRUE) # 0

\* The fence pattern matches at position p.
FenceMatchAt(s, p) == StartsWithAt(s, Fence, p) /\ FenceGroupAt(s, FenceGroupStart(s, p))

\* The group <<start, end>> that starts at g; <<0, 0>> for no match.
FenceGroup(s, g) ==
    IF g = 0 THEN <<0, 0>> ELSE <<g, LastCloser(s, g, Closer(s[g]), TRUE)>>

\* re.search(r"```(?:json)?\s*(\{.*\}|\[.*\])\s*```", text, re.DOTALL):
\* group(1) of the leftmost match as <<start, end>>, <<0, 0>> if none.
FenceSearchFrom(s, p) == FenceGroup(s, IF p = 0 THEN 0 ELSE FenceGroupStart(s, p))

FenceSearch(s) == FenceSearchFrom(s, MinOr({p \in 1..Len(s) : FenceMatchAt(s, p)}, 0))

RECURSIVE FindAllFrom(_, _)
\* The match that opens at i and closes at q, and the matches after it.
FindAllTake(s, i, q) ==
    IF q # 0 THEN <<SubSeq(s, i, q)>> \o FindAllFrom(s, q + 1)
    ELSE FindAllFrom(s, i + 1)

\* re.findall(r"(\{.*\}|\[.*\])", text, re.DOTALL) from position i: a
\* match opens at a { or [ that has its closer later in the text and runs
\* to the last such closer; the search goes on after the match.
FindAllFrom(s, i) ==
    IF i > Len(s) THEN <<>>
    ELSE IF s[i] \in {"{", "["}
         THEN FindAllTake(s, i, LastCloser(s, i, Closer(s[i]), FALSE))
         ELSE FindAllFrom(s, i + 1)

RECURSIVE FirstLoadable(_, _)
FirstLoadableOr(cands, n, loaded) ==
    IF loaded.ok THEN loaded ELSE FirstLoadable(cands, n + 1)

\* for c in candidates: the first that json.loads accepts.
FirstLoadable(cands, n) ==
    IF n > Len(cands) THEN ParseError
    ELSE FirstLoadableOr(cands, n, json_loads(cands[n]))

\* json.loads of the fenced group, if the fence pattern matched.
FencedLoad(text, fence) ==
    IF fence[1] = 0 THEN ParseError
    ELSE json_loads(SubSeq(text, fence[1], fence[2]))

\* The value of the first attempt that succeeded, None if none did.
FirstParsed(fenced, cand, whole) ==
    IF fenced.ok THEN fenced.v
    ELSE IF cand.ok THEN cand.v
    ELSE IF whole.ok THEN whole.v
    ELSE JNone

\* _json_from_text(text): the fenced group if it loads, else the first
\* candidate that loads, else the whole text, else None.
json_from_text(text) ==
    FirstParsed(FencedLoad(text, FenceSearch(text)),
                FirstLoadable(FindAllFrom(text, 1), 1),
                json_loads(text))

--------------------------------------------------------------------------
(* model.py: the provider call and the sanitising of its response.         *)

MODEL_CANDIDATES ==
    <<"models/gemini-1.5-flash", "models/gemini-1.5-pro", "gemini-2.0-flash-lite">>

\* What a call of a candidate model can do: raise one of these errors (a
\* timeout, a refused credential), answer with a text, or answer with a
\* response that has no text.
ProviderErrors == {"DeadlineExceeded", "PermissionDenied"}
CallKinds == ProviderErrors \cup {"text", "notext"}

\* str(resp) of a response without text.
ReprOfResponse == <<"<", "r", "e", "s", "p", ">">>

RECURSIVE TryFrom(_, _, _, _, _)
\* What the call of candidate n gives, called being the models called so
\* far with this one: its text, str(resp) when it has none, or the next
\* candidate when it raised.
TryCall(behaviour, raw, n, called) ==
    IF behaviour[n] = "text"
    THEN [raised |-> FALSE, error |-> NoError, text |-> raw, calls |-> called]
    ELSE IF behaviour[n] = "notext"
    THEN [raised |-> FALSE, error |-> NoError, text |-> ReprOfResponse,
          calls |-> called]
    ELSE TryFrom(behaviour, raw, n + 1, behaviour[n], called)

\* The loop of _try_models reporting the error of the first candidate
\* instead of the last.
TryFrom_FirstError(behaviour, raw, n, last_err, calls) ==
    IF n > Len(MODEL_CANDIDATES)
    THEN [raised |-> TRUE,
          error |-> [type |-> "RuntimeError", last |-> behaviour[1]],
          text |-> <<>>, calls |-> calls]
    ELSE TryCall(behaviour, raw, n, Append(calls, MODEL_CANDIDATES[n]))

\* The loop of _try_models from candidate n on: the first call that does
\* not raise ends it with its text; when all have raised, RuntimeError
\* carrying the last error.
TryFrom(behaviour, raw, n, last_err, calls) ==
    IF n > Len(MODEL_CANDIDATES)
    THEN [raised |-> TRUE, error |-> [type |-> "RuntimeError", last |-> last_err],
          text |-> <<>>, calls |-> calls]
    ELSE TryCall(behaviour, raw, n, Append(calls, MODEL_CANDIDATES[n]))

\* _try_models(prompt, api_key): _configure raises ValueError on an empty
\* key, before any call.
try_models(api_key, behaviour, raw) ==
    IF api_key = <<>>
    THEN [raised |-> TRUE, error |-> [type |-> "ValueError", last |-> "None"],
          text |-> <<>>, calls |-> <<>>]
    ELSE TryFrom(behaviour, raw, 1, "None", <<>>)

\* str.strip()
Strip(s) ==
    SubSeq(s, MinOr({k \in 1..Len(s) : ~IsSpace(s[k])}, 1),
              MaxOr({k \in 1..Len(s) : ~IsSpace(s[k])}, 0))

\* The default confidence, 0.7.
DefaultConfidence == JNum(7, 10)

\* The member at position n of pairs, or the default when n is 0.
GetAt(pairs, n, default) == IF n = 0 THEN default ELSE pairs[n].v

\* dict.get(key, default) on the members of a parsed object: the last
\* member with the key wins, as in the dict json.loads builds.
Get(pairs, key, default) ==
    GetAt(pairs, MaxOr({n \in 1..Len(pairs) : pairs[n].k = key}, 0), default)

KeyCorrected == <<"c", "o", "r", "r", "e", "c", "t", "e", "d">>
KeyConfidence == <<"c", "o", "n", "f", "i", "d", "e", "n", "c", "e">>

\* A float, or the failure of float().
Float(num, den) == [ok |-> TRUE, num |-> num, den |-> den]
NoFloat == [ok |-> FALSE, num |-> 0, den |-> 1]

\* The float of the stripped string t when n is what reads as a number at
\* its start: the number must take the whole of t.
FloatOfParsed(t, n) ==
    IF n.ok /\ n.next = Len(t) + 1 THEN Float(n.v.num, n.v.den) ELSE NoFloat

\* float(t) of a stripped string.
FloatOfString(t) == IF t = <<>> THEN NoFloat ELSE FloatOfParsed(t, ParseNumber(t, 1))

\* float(v): of a number, a boolean, or a string that reads as a number;
\* anything else raises.
FloatOf(v) ==
    IF v.t = "num" THEN Float(v.num, v.den)
    ELSE IF v.t = "bool" THEN Float(IF v.b THEN 1 ELSE 0, 1)
    ELSE IF v.t = "str" THEN FloatOfString(Strip(v.s))
    ELSE NoFloat

\* float(item.get("confidence", 0.7))
Confidence(v) == FloatOf(v)

\* The suggestion built from the corrected and the confidence of an item.
CleanedOf(corrected, conf) ==
    IF corrected.t # "str" \/ ~conf.ok
    THEN [ok |-> FALSE, corrected |-> <<>>, confidence |-> [num |-> 0, den |-> 1]]
    ELSE [ok |-> TRUE, corrected |-> Strip(corrected.s),
          confidence |-> [num |-> conf.num, den |-> conf.den]]

\* The suggestion kept for one object of the response; ok is FALSE when
\* building it raises (a corrected that is no string has no strip, a
\* confidence float cannot read). The keys explanations, language and
\* translation_en are copied as they come and are left out here.
Cleaned(item) ==
    CleanedOf(Get(item.pairs, KeyCorrected, JStr(<<>>)),
              Confidence(Get(item.pairs, KeyConfidence, DefaultConfidence)))

\* cleaned.append(...) of the suggestion c before the suggestions of the
\* items after it; a raise in either is a raise of the loop.
SanitizeAppend(c, rest) ==
    IF ~c.ok \/ ~rest.ok THEN [ok |-> FALSE, cleaned |-> <<>>]
    ELSE [ok |-> TRUE,
          cleaned |-> <<[corrected |-> c.corrected,
                         confidence |-> c.confidence]>> \o rest.cleaned]

RECURSIVE SanitizeFrom(_, _)
\* The sanitize loop from item n on: items that are no object are skipped.
SanitizeFrom(items, n) ==
    IF n > Len(items) THEN [ok |-> TRUE, cleaned |-> <<>>]
    ELSE IF items[n].t # "obj" THEN SanitizeFrom(items, n + 1)
    ELSE SanitizeAppend(Cleaned(items[n]), SanitizeFrom(items, n + 1))

\* data after the fallback, data being what _json_from_text gave: a
\* response that did not parse to a list is wrapped as one suggestion
\* holding the stripped raw text.
DataOr(raw, data) ==
    IF data.t = "list" THEN data.items
    ELSE <<JObj(<<[k |-> KeyCorrected, v |-> JStr(Strip(raw))],
                  [k |-> KeyConfidence, v |-> DefaultConfidence]>>)>>

DataOf(raw) == DataOr(raw, json_from_text(raw))

\* The end of get_gemini_analysis after a provider call that answered:
\* the cleaned list, or what the sanitize loop raised (AttributeError,
\* ValueError or TypeError).
AfterSanitize(calls, clean) ==
    IF ~clean.ok
    THEN Ended(TRUE, [type |-> "SanitizeError", last |-> "None"], <<>>, calls)
    ELSE Ended(FALSE, NoError, clean.cleaned, calls)

\* The end of get_gemini_analysis after _try_models.
AfterTry(tried) ==
    IF tried.raised THEN Ended(TRUE, tried.error, <<>>, tried.calls)
    ELSE AfterSanitize(tried.calls, SanitizeFrom(DataOf(tried.text), 1))

\* get_gemini_analysis(text, api_key, ...): raises what _try_models raises
\* and what the sanitize loop raises, else returns the cleaned list.
get_gemini_analysis(api_key, behaviour, raw) ==
    AfterTry(try_models(api_key, behaviour, raw))

--------------------------------------------------------------------------
(* The masking codec applied to bounded inputs.                            *)

\* What the texts of the masking runs are made of: a fence, a lone
\* backtick, a letter, a newline, and the literal text of the first two
\* placeholder keys.
MaskFragments ==
    {Fence, <<BT>>, <<"a">>, <<"\n">>, PlaceholderKey(0), PlaceholderKey(1)}

MaskTexts == {Concat(fs) : fs \in SeqsUpTo(MaskFragments, MaxFrags)}

MaskInit ==
    /\ mText \in MaskTexts
    /\ mMasked = <<>>
    /\ mBlocks = <<>>
    /\ mOut = <<>>
    /\ mPc = "input"

\* masked, blocks = mask_code_blocks(raw_text)
MaskStep ==
    /\ mPc = "input"
    /\ LET r == mask_code_blocks(mText)
       IN  /\ mMasked' = r.masked
           /\ mBlocks' = r.blocks
    /\ mPc' = "masked"
    /\ UNCHANGED <<mText, mOut, notMaskVars>>

\* unmask_code_blocks(masked, blocks)
UnmaskStep ==
    /\ mPc = "masked"
    /\ mOut' = unmask_code_blocks(mMasked, mBlocks)
    /\ mPc' = "done"
    /\ UNCHANGED <<mText, mMasked, mBlocks, notMaskVars>>

MaskNext == MaskStep \/ UnmaskStep

InitMask == MaskInit /\ DiffIdle /\ ProvIdle /\ SessIdle

SpecMask == InitMask /\ [][MaskNext]_vars

--------------------------------------------------------------------------
(* The diff and the merge applied to bounded inputs.                       *)

\* The tokens of the diffed texts.
DiffTokens == {<<"a">>, <<"b", "c">>}

\* How a text spaces its tokens: what precedes the first, separates two,
\* and follows the last.
Spacings ==
    {[lead |-> <<>>, sep |-> <<" ">>, trail |-> <<>>],
     [lead |-> <<" ">>, sep |-> <<"\n", " ">>, trail |-> <<"\t">>]}

RECURSIVE JoinWith(_, _)
JoinWith(tokens, sep) ==
    IF tokens = <<>> THEN <<>>
    ELSE IF Len(tokens) = 1 THEN tokens[1]
    ELSE tokens[1] \o sep \o JoinWith(Tail(tokens), sep)

\* The text of the tokens under a spacing.
Render(tokens, sp) == sp.lead \o JoinWith(tokens, sp.sep) \o sp.trail

DiffTexts ==
    {Render(ts, sp) : ts \in SeqsUpTo(DiffTokens, MaxTokens), sp \in Spacings}

\* The accept masks: every sequence of booleans up to MaxMaskLen.
Masks == SeqsUpTo(BOOLEAN, MaxMaskLen)

DiffInit ==
    /\ dA \in DiffTexts
    /\ dB \in DiffTexts
    /\ dEdits = <<>>
    /\ dMask = <<>>
    /\ dOut = <<>>
    /\ dPc = "input"

\* edits = diff_pairs(original, corrected)
DiffPairsStep ==
    /\ dPc = "input"
    /\ dEdits' = diff_pairs(dA, dB)
    /\ dPc' = "diffed"
    /\ UNCHANGED <<dA, dB, dMask, dOut, notDiffVars>>

\* revised = apply_selected_edits(original, corrected, accept_mask)
ApplyEditsStep ==
    /\ dPc = "diffed"
    /\ \E mask \in Masks :
        /\ dMask' = mask
        /\ dOut' = apply_selected_edits(dA, dB, mask)
    /\ dPc' = "applied"
    /\ UNCHANGED <<dA, dB, dEdits, notDiffVars>>

DiffNext == DiffPairsStep \/ ApplyEditsStep

InitDiff == DiffInit /\ MaskIdle /\ ProvIdle /\ SessIdle

SpecDiff == InitDiff /\ [][DiffNext]_vars

--------------------------------------------------------------------------
(* get_gemini_analysis applied to bounded provider behaviour.              *)

Quoted(chars) == <<Quote>> \o chars \o <<Quote>>

\* "key":value
Member(key, valueText) == Quoted(key) \o <<":">> \o valueText

\* {member,member}
ObjectText(members) == <<"{">> \o JoinWith(members, <<",">>) \o <<"}">>

\* [item, item]
ListText(items) == <<"[">> \o JoinWith(items, <<",", " ">>) \o <<"]">>

\* A suggestion without a confidence, its text padded with spaces.
ItemNoConfidence ==
    ObjectText(<<Member(KeyCorrected, Quoted(<<" ", "a", " ", "b", " ">>))>>)

\* A suggestion with the confidence written as conf.
ItemWithConfidence(conf) ==
    ObjectText(<<Member(KeyCorrected, Quoted(<<"c">>)), Member(KeyConfidence, conf)>>)

\* The objects a modelled response holds: confidence missing, within
\* [0, 1], above 1, below 0, and one float cannot read.
ResponseObjects ==
    {ItemNoConfidence,
     ItemWithConfidence(<<"0", ".", "9">>),
     ItemWithConfidence(<<"1", ".", "5">>),
     ItemWithConfidence(<<"-", "0", ".", "2">>),
     ItemWithConfidence(Quoted(<<"h", "i", "g", "h">>))}

\* The items of a modelled list: the objects and a bare number.
ResponseItems == ResponseObjects \cup {<<"1">>}

\* Responses that are no JSON at all: plain prose, prose with a bracketed
\* reference, and a bracket never closed.
Unstructured ==
    {<<"t", "e", "h", " ", "c", "a", "t">>,
     <<"s", "e", "e", " ", "[", "1", "]">>,
     <<"[", "x">>}

ResponseBodies ==
    {ListText(items) : items \in SeqsUpTo(ResponseItems, MaxItems)}
        \cup ResponseObjects \cup Unstructured

\* How the model dresses its answer: bare, in a json code fence, or after a
\* word of prose with whitespace around.
Dressed(body, how) ==
    CASE how = "bare" -> body
      [] how = "fenced" ->
            Fence \o <<"j", "s", "o", "n", "\n">> \o body \o <<"\n">> \o Fence
      [] how = "prose" -> <<" ", "o", "k", " ">> \o body \o <<"\n">>

ProviderTexts ==
    {Dressed(body, how) : body \in ResponseBodies, how \in {"bare", "fenced", "prose"}}

ProvInit ==
    /\ pApiKey \in {<<>>, <<"k">>}
    /\ pBehaviour \in [1..Len(MODEL_CANDIDATES) -> CallKinds]
    /\ pRaw \in ProviderTexts
    /\ pResult = Ended(FALSE, NoError, <<>>, <<>>)
    /\ pPc = "start"

\* results = get_gemini_analysis(text=prepped, api_key=api_key, ...)
GetGeminiAnalysis ==
    /\ pPc = "start"
    /\ pResult' = get_gemini_analysis(pApiKey, pBehaviour, pRaw)
    /\ pPc' = "done"
    /\ UNCHANGED <<pApiKey, pBehaviour, pRaw, notProvVars>>

ProvNext == GetGeminiAnalysis

InitProv == ProvInit /\ MaskIdle /\ DiffIdle /\ SessIdle

SpecProv == InitProv /\ [][ProvNext]_vars

--------------------------------------------------------------------------
(* app.py: the session. Streamlit runs the whole script once for every     *)
(* user interaction and once more when the script calls st.rerun(); each   *)
(* action below is one run of the script. The session is read and written  *)
(* as one record, as the script reads and writes st.session_state.         *)

RECURSIVE CollapseFrom(_, _)
\* re.sub(r"\s+", " ", s) from position i: a run of whitespace becomes one
\* space.
CollapseFrom(s, i) ==
    IF i > Len(s) THEN <<>>
    ELSE IF IsSpace(s[i]) THEN <<" ">> \o CollapseFrom(s, SkipSpace(s, i))
    ELSE <<s[i]>> \o CollapseFrom(s, i + 1)

\* preprocess_text(text)
preprocess_text(text) == CollapseFrom(Strip(text), 1)

\* The value of lastApply when the run wrote no suggestion to the editor.
NoApply == [from |-> <<>>, corrected |-> <<>>, written |-> FALSE]

\* The session as the script sees it.
Session ==
    [user_text |-> user_text, history |-> history,
     last_suggestions |-> last_suggestions, results |-> results,
     pending |-> pending, crashed |-> crashed,
     lastApply |-> lastApply, applied |-> applied,
     lastRestore |-> lastRestore, request |-> request, apiCalls |-> apiCalls]

\* What the user clicked to start the run.
NoClick == [kind |-> "none", n |-> 0, mask |-> <<>>]
ClickGet == [kind |-> "get", n |-> 0, mask |-> <<>>]
ClickApply(idx, mask) == [kind |-> "apply", n |-> idx, mask |-> mask]
ClickRestore(n) == [kind |-> "restore", n |-> n, mask |-> <<>>]

\* How the provider behaves in one run: every model call raises; or the
\* first model answers with an empty list, with one corrected suggestion in
\* a json fence, with two suggestions (the text as it is, then the
\* corrected one), or with the corrected text as plain prose.
SessionReplies == {"raise", "none", "fixed", "two", "prose"}

\* The behaviour of the candidate models under a reply.
ReplyBehaviour(reply) ==
    IF reply = "raise"
    THEN [n \in 1..Len(MODEL_CANDIDATES) |-> "DeadlineExceeded"]
    ELSE [n \in 1..Len(MODEL_CANDIDATES) |-> "text"]

\* The correction the provider makes to the text it is sent: every x
\* becomes y; placeholders are returned untouched.
ProviderCorrection(prepped) == Replace(prepped, <<"x">>, <<"y">>)

\* A suggestion object as the provider writes it.
SuggestionText(corrected) ==
    ObjectText(<<Member(KeyCorrected, Quoted(corrected)),
                 Member(KeyConfidence, <<"0", ".", "9">>)>>)

\* The text the provider answers with, for the text it is sent.
ReplyText(reply, prepped) ==
    CASE reply = "none" -> ListText(<<>>)
      [] reply = "fixed" ->
            Dressed(ListText(<<SuggestionText(ProviderCorrection(prepped))>>),
                    "fenced")
      [] reply = "two" ->
            ListText(<<SuggestionText(prepped),
                       SuggestionText(ProviderCorrection(prepped))>>)
      [] reply = "prose" -> ProviderCorrection(prepped)
      [] OTHER -> <<>>

\* What run_analysis gives back: it raised, or it returned the results.
\* how tells the way it ended ("refused" for a missing key, "blank" for a
\* blank text, "raised", "returned") and calls the models it called.
Round(raised, res) ==
    [raised |-> raised, results |-> res,
     how |-> IF raised THEN "raised" ELSE "returned", calls |-> <<>>]

\* st.error("API key is required."); return []
Refused == [Round(FALSE, <<>>) EXCEPT !.how = "refused"]

\* if not raw_text.strip(): return []
Blank == [Round(FALSE, <<>>) EXCEPT !.how = "blank"]

\* for r in results: r["corrected"] = unmask_code_blocks(r["corrected"], blocks)
Unmasked(suggestions, blocks) ==
    [n \in 1..Len(suggestions) |->
        [corrected |-> unmask_code_blocks(suggestions[n].corrected, blocks),
         confidence |-> suggestions[n].confidence]]

\* run_analysis after the provider call: an exception of the call leaves
\* run_analysis; else the results are unmasked.
AnalysisUnmask(blocks, ended) ==
    IF ended.raised THEN [Round(TRUE, <<>>) EXCEPT !.calls = ended.calls]
    ELSE [Round(FALSE, Unmasked(ended.suggestions, blocks))
            EXCEPT !.calls = ended.calls]

\* run_analysis from the masked text on.
AnalysisOf(m, key, reply) ==
    AnalysisUnmask(m.blocks,
                   get_gemini_analysis(key, ReplyBehaviour(reply),
                                       ReplyText(reply, preprocess_text(m.masked))))

\* run_analysis() without its test of the key.
run_analysis_NoKeyTest(text, key, reply) ==
    IF Strip(text) = <<>> THEN Blank
    ELSE AnalysisOf(mask_code_blocks(text), key, reply)

\* run_analysis(), up to its return value: no key and no text give no
\* results.
run_analysis(text, key, reply) ==
    IF key = <<>> THEN Refused
    ELSE IF Strip(text) = <<>> THEN Blank
    ELSE AnalysisOf(mask_code_blocks(text), key, reply)

\* A history that takes the last suggestion of a round.
HistoryAfter_LastSuggestion(hist, res) ==
    IF res # <<>> THEN Append(hist, res[Len(res)].corrected) ELSE hist

\* if results: st.session_state["history"].append(results[0]["corrected"])
HistoryAfter(hist, res) ==
    IF res # <<>> THEN Append(hist, res[1].corrected) ELSE hist

\* The session after the trigger: an exception of run_analysis ends the
\* run; else the results are kept and, if there are any, recorded.
AfterAnalysis(s, round) ==
    IF round.raised
    THEN [s EXCEPT !.results = <<>>, !.crashed = TRUE, !.pending = FALSE,
                   !.lastApply = NoApply, !.lastRestore = 0,
                   !.request = round.how, !.apiCalls = round.calls]
    ELSE [s EXCEPT !.results = round.results, !.crashed = FALSE,
                   !.pending = FALSE, !.lastApply = NoApply, !.lastRestore = 0,
                   !.request = round.how, !.apiCalls = round.calls,
                   !.last_suggestions =
                        IF round.results # <<>> THEN round.results ELSE @,
                   !.history = HistoryAfter(@, round.results)]

\* The session after a trigger that did not fire: results = [].
NoResults(s) ==
    [s EXCEPT !.results = <<>>, !.crashed = FALSE, !.pending = FALSE,
              !.lastApply = NoApply, !.lastRestore = 0,
              !.request = "none", !.apiCalls = <<>>]

\* accept_mask: one checkbox per edit, checked unless the user cleared it.
AcceptMask(edits, boxes) ==
    [i \in 1..Len(edits) |-> IF i <= Len(boxes) THEN boxes[i] ELSE TRUE]

\* revised: the merge under the checkboxes if there are edits, else the
\* corrected text.
Revised(text, corrected, edits, boxes) ==
    IF edits # <<>>
    THEN apply_selected_edits(text, corrected, AcceptMask(edits, boxes))
    ELSE corrected

\* Apply Suggestion: user_text = revised; st.rerun()
Written(s, corrected, revised) ==
    [s EXCEPT !.user_text = revised, !.pending = TRUE,
              !.lastApply = [from |-> s.user_text, corrected |-> corrected,
                             written |-> TRUE],
              !.applied = @ \cup {corrected}]

\* The most entries the history view shows.
HistoryWindow == 6

\* The positions of the history the view shows, each with its Restore
\* button: history[-6:].
HistoryView(hist) == {n \in 1..Len(hist) : n > Len(hist) - HistoryWindow}

\* history[-6:]
LastEntries(hist) ==
    SubSeq(hist, IF Len(hist) > HistoryWindow THEN Len(hist) - HistoryWindow + 1 ELSE 1,
           Len(hist))

\* reversed(entries)
Reversed(entries) == [i \in 1..Len(entries) |-> entries[Len(entries) - i + 1]]

\* A history view whose labels count from the window, not from the history.
history_view_WindowLabels(hist) ==
    [i \in 1..Len(LastEntries(hist)) |->
        [label |-> Len(LastEntries(hist)) - i + 1,
         text |-> Reversed(LastEntries(hist))[i]]]

\* The History section as it is rendered: for i, h in
\* enumerate(reversed(history[-6:]), 1), the text h under the label
\* len(history) - i + 1, with the Restore button of that label.
history_view(hist) ==
    [i \in 1..Len(LastEntries(hist)) |->
        [label |-> Len(hist) - i + 1, text |-> Reversed(LastEntries(hist))[i]]]

\* The session after Restore of the i-th rendered version: user_text = h;
\* st.rerun(); i is 0 when no rendered button has the clicked label.
Restored(s, view, i) ==
    IF i = 0 THEN s
    ELSE [s EXCEPT !.user_text = view[i].text, !.pending = TRUE,
                   !.lastRestore = view[i].label]

\* The History section: the Restore button that was clicked, if this run
\* renders it, sets the editor text and reruns.
HistorySection(s, click) ==
    IF click.kind = "restore"
    THEN Restored(s, history_view(s.history),
                  MinOr({i \in 1..Len(history_view(s.history)) :
                            history_view(s.history)[i].label = click.n}, 0))
    ELSE s

\* The display of the results: the Apply button of a suggestion exists only
\* while the results of this run hold it; st.rerun() ends the run there.
Display(s, click) ==
    IF s.crashed THEN s
    ELSE IF click.kind = "apply" /\ click.n <= Len(s.results)
    THEN Written(s, s.results[click.n].corrected,
                 Revised(s.user_text, s.results[click.n].corrected,
                         diff_pairs(s.user_text, s.results[click.n].corrected),
                         click.mask))
    ELSE HistorySection(s, click)

\* One run of the script: the trigger, the display, the history.
Script(s, rt, key, click, reply) ==
    IF (rt /\ Strip(s.user_text) # <<>>) \/ click.kind = "get"
    THEN Display(AfterAnalysis(s, run_analysis(s.user_text, key, reply)), click)
    ELSE Display(NoResults(s), click)

\* The session becomes what the run left.
Becomes(next) ==
    /\ user_text' = next.user_text
    /\ history' = next.history
    /\ last_suggestions' = next.last_suggestions
    /\ results' = next.results
    /\ pending' = next.pending
    /\ crashed' = next.crashed
    /\ lastApply' = next.lastApply
    /\ applied' = next.applied
    /\ lastRestore' = next.lastRestore
    /\ request' = next.request
    /\ apiCalls' = next.apiCalls

\* The texts the user types into the editor: blank, a word, and a fenced
\* block with a newline inside followed by a word.
SessionTexts ==
    {<<" ">>, <<"x">>, Fence \o <<"a", "\n", "b">> \o Fence \o <<" ", "x">>}

\* The states of the accept checkboxes the user can leave.
SessionBoxes == [1..MaxMaskLen -> BOOLEAN]

SessInit ==
    /\ user_text = <<>>
    /\ history = <<>>
    /\ last_suggestions = <<>>
    /\ results = <<>>
    /\ realtime = FALSE
    /\ apiKey \in {<<>>, <<"k">>}
    /\ pending = FALSE
    /\ crashed = FALSE
    /\ lastApply = NoApply
    /\ applied = {}
    /\ lastRestore = 0
    /\ request = "none"
    /\ apiCalls = <<>>
    /\ sPc = "session"

\* The session goes on while the history is within the bound.
Open == sPc = "session" /\ Len(history) < MaxHistory

\* The user edits the text of the editor.
EditText ==
    /\ Open /\ ~pending
    /\ \E text \in SessionTexts \ {user_text}, reply \in SessionReplies :
        \E next \in {Script([Session EXCEPT !.user_text = text], realtime,
                            apiKey, NoClick, reply)} : Becomes(next)
    /\ UNCHANGED <<realtime, apiKey, sPc, notSessVars>>

\* The user switches Real-time Suggestions.
ToggleRealtime ==
    /\ Open /\ ~pending
    /\ realtime' = ~realtime
    /\ \E reply \in SessionReplies :
        \E next \in {Script(Session, ~realtime, apiKey, NoClick, reply)} :
            Becomes(next)
    /\ UNCHANGED <<apiKey, sPc, notSessVars>>

\* The user enters or clears the Gemini API Key of the sidebar.
SetApiKey ==
    /\ Open /\ ~pending
    /\ \E key \in {<<>>, <<"k">>} \ {apiKey}, reply \in SessionReplies :
        /\ apiKey' = key
        /\ \E next \in {Script(Session, realtime, key, NoClick, reply)} :
              Becomes(next)
    /\ UNCHANGED <<realtime, sPc, notSessVars>>

\* The user clicks Get Suggestions.
GetSuggestions ==
    /\ Open /\ ~pending
    /\ \E reply \in SessionReplies :
        \E next \in {Script(Session, realtime, apiKey, ClickGet, reply)} :
            Becomes(next)
    /\ UNCHANGED <<realtime, apiKey, sPc, notSessVars>>

\* The user clicks Apply Suggestion idx, the accept checkboxes being boxes.
ApplySuggestion ==
    /\ Open /\ ~pending
    /\ \E idx \in 1..Len(results), boxes \in SessionBoxes,
          reply \in SessionReplies :
        \E next \in {Script(Session, realtime, apiKey,
                            ClickApply(idx, boxes), reply)} : Becomes(next)
    /\ UNCHANGED <<realtime, apiKey, sPc, notSessVars>>

\* The user clicks Restore of a version the history view shows.
RestoreVersion ==
    /\ Open /\ ~pending
    /\ \E n \in HistoryView(history), reply \in SessionReplies :
        \E next \in {Script(Session, realtime, apiKey, ClickRestore(n), reply)} :
            Becomes(next)
    /\ UNCHANGED <<realtime, apiKey, sPc, notSessVars>>

\* The script runs again with no click: after st.rerun(), or after the user
\* changed a widget that is not modelled (an accept checkbox, a setting).
Rerun ==
    /\ Open
    /\ \E reply \in SessionReplies :
        \E next \in {Script(Session, realtime, apiKey, NoClick, reply)} :
            Becomes(next)
    /\ UNCHANGED <<realtime, apiKey, sPc, notSessVars>>

SessNext ==
    \/ EditText
    \/ ToggleRealtime
    \/ SetApiKey
    \/ GetSuggestions
    \/ ApplySuggestion
    \/ RestoreVersion
    \/ Rerun

InitSess == SessInit /\ MaskIdle /\ DiffIdle /\ ProvIdle

SpecSess == InitSess /\ [][SessNext]_vars

--------------------------------------------------------------------------
(* The session over a long history. The runs of the script are those of    *)
(* the session above, with what run_analysis gives back taken as the input *)
(* of the run, so that the history can outgrow the view of its 6 most      *)
(* recent entries.                                                         *)

\* The corrected texts the rounds return.
HistTexts == {<<"x">>, <<"y">>}

\* What run_analysis can give back for a text that is not blank: an
\* exception of the provider, no suggestion, or one suggestion.
HistRounds ==
    {Round(TRUE, <<>>), Round(FALSE, <<>>)}
        \cup {Round(FALSE, <<[corrected |-> t, confidence |-> [num |-> 9, den |-> 10]]>>) :
                t \in HistTexts}

\* What run_analysis gives back for the text: a blank text gives no
\* results whatever the provider would do.
RoundFor(text, round) == IF Strip(text) = <<>> THEN Blank ELSE round

\* The click on Run Batch Correction.
ClickBatch == [kind |-> "batch", n |-> 0, mask |-> <<>>]

\* The Batch Processing section: the corrected document is displayed and
\* kept nowhere in the session; an exception of get_gemini_analysis on a
\* segment ends the run.
BatchSection(s, click, raises) ==
    IF click.kind = "batch" /\ ~s.crashed /\ raises
    THEN [s EXCEPT !.crashed = TRUE]
    ELSE s

\* One run of the script, round being what run_analysis gives back if the
\* trigger fires: the trigger, the display, the batch, the history.
ScriptWith(s, rt, click, round, raises) ==
    IF (rt /\ Strip(s.user_text) # <<>>) \/ click.kind = "get"
    THEN BatchSection(Display(AfterAnalysis(s, RoundFor(s.user_text, round)), click),
                      click, raises)
    ELSE BatchSection(Display(NoResults(s), click), click, raises)

\* Real-time Suggestions is on, the editor holds a word, and no round has
\* returned a suggestion yet.
HistInit ==
    /\ user_text = <<"x">>
    /\ history = <<>>
    /\ last_suggestions = <<>>
    /\ results = <<>>
    /\ realtime = TRUE
    /\ apiKey = <<"k">>
    /\ pending = FALSE
    /\ crashed = FALSE
    /\ lastApply = NoApply
    /\ applied = {}
    /\ lastRestore = 0
    /\ request = "none"
    /\ apiCalls = <<>>
    /\ sPc = "session"

\* The session goes on while the history is within the bound.
HistOpen == sPc = "session" /\ Len(history) < MaxVersions

\* The user clicks Get Suggestions.
HistGetSuggestions ==
    /\ HistOpen /\ ~pending
    /\ \E round \in HistRounds :
        \E next \in {ScriptWith(Session, realtime, ClickGet, round, FALSE)} :
            Becomes(next)
    /\ UNCHANGED <<realtime, apiKey, sPc, notSessVars>>

\* The user clicks Apply Suggestion 1 with the accept checkbox as it is.
HistApplySuggestion ==
    /\ HistOpen /\ ~pending
    /\ results # <<>>
    /\ \E round \in HistRounds :
        \E next \in {ScriptWith(Session, realtime, ClickApply(1, <<TRUE>>),
                                round, FALSE)} : Becomes(next)
    /\ UNCHANGED <<realtime, apiKey, sPc, notSessVars>>

\* The user clicks Restore of a version the history view shows.
HistRestoreVersion ==
    /\ HistOpen /\ ~pending
    /\ \E n \in HistoryView(history), round \in HistRounds :
        \E next \in {ScriptWith(Session, realtime, ClickRestore(n), round, FALSE)} :
            Becomes(next)
    /\ UNCHANGED <<realtime, apiKey, sPc, notSessVars>>

\* The user clicks Run Batch Correction on an uploaded document.
HistBatchCorrection ==
    /\ HistOpen /\ ~pending
    /\ \E round \in HistRounds, raises \in BOOLEAN :
        \E next \in {ScriptWith(Session, realtime, ClickBatch, round, raises)} :
            Becomes(next)
    /\ UNCHANGED <<realtime, apiKey, sPc, notSessVars>>

\* The script runs again with no click.
HistRerun ==
    /\ HistOpen
    /\ \E round \in HistRounds :
        \E next \in {ScriptWith(Session, realtime, NoClick, round, FALSE)} :
            Becomes(next)
    /\ UNCHANGED <<realtime, apiKey, sPc, notSessVars>>

HistNext ==
    \/ HistGetSuggestions
    \/ HistApplySuggestion
    \/ HistRestoreVersion
    \/ HistBatchCorrection
    \/ HistRerun

InitHist == HistInit /\ MaskIdle /\ DiffIdle /\ ProvIdle

SpecHist == InitHist /\ [][HistNext]_vars

--------------------------------------------------------------------------
(* unmask_code_blocks applied twice to bounded texts and block maps.       *)

\* What the unmasked texts are made of: the first two placeholder keys and
\* a letter.
UnmaskFragments == {PlaceholderKey(0), PlaceholderKey(1), <<"a">>}

UnmaskTexts == {Concat(fs) : fs \in SeqsUpTo(UnmaskFragments, MaxFrags)}

\* The blocks of the maps: a fenced letter, and a fenced text of each key.
UnmaskBlocks ==
    {Fence \o <<"a">> \o Fence,
     Fence \o PlaceholderKey(0) \o Fence,
     Fence \o PlaceholderKey(1) \o Fence}

\* The block maps: empty, one key, or both keys in either insertion order.
BlockMaps ==
    {<<>>}
        \cup {<<[key |-> PlaceholderKey(k), block |-> v]>> :
                k \in {0, 1}, v \in UnmaskBlocks}
        \cup {<<[key |-> PlaceholderKey(k), block |-> v],
                [key |-> PlaceholderKey(1 - k), block |-> w]>> :
                k \in {0, 1}, v \in UnmaskBlocks, w \in UnmaskBlocks}

UnmaskInit ==
    /\ mText \in UnmaskTexts
    /\ mMasked = <<>>
    /\ mBlocks \in BlockMaps
    /\ mOut = <<>>
    /\ mPc = "text"

\* out = unmask_code_blocks(text, blocks)
UnmaskOnce ==
    /\ mPc = "text"
    /\ mOut' = unmask_code_blocks(mText, mBlocks)
    /\ mPc' = "once"
    /\ UNCHANGED <<mText, mMasked, mBlocks, notMaskVars>>

\* unmask_code_blocks(out, blocks): the first result is the text of the
\* second call.
UnmaskAgain ==
    /\ mPc = "once"
    /\ mText' = mOut
    /\ mOut' = unmask_code_blocks(mOut, mBlocks)
    /\ mPc' = "twice"
    /\ UNCHANGED <<mMasked, mBlocks, notMaskVars>>

UnmaskNext == UnmaskOnce \/ UnmaskAgain

InitUnmask == UnmaskInit /\ DiffIdle /\ ProvIdle /\ SessIdle

SpecUnmask == InitUnmask /\ [][UnmaskNext]_vars

--------------------------------------------------------------------------
(* C1: for every text T, unmasking the masked T with its block map gives T *)
(* back exactly, also when T holds the literal text of a placeholder.      *)
C1_RoundTrip == mPc = "done" => mOut = mText

--------------------------------------------------------------------------
(* The claims about the diff and the merge read the run's result against   *)
(* the tokens and the opcodes of its two texts.                            *)

dO == Split(dA)
dC == Split(dB)
dOps == get_opcodes(dO, dC)

\* The positions, in the edit script, of its non-equal opcodes.
NonEqual(ops) == {n \in 1..Len(ops) : ops[n].tag # "equal"}

\* The rank of the non-equal opcode at position n among the non-equal
\* opcodes: 1 for the first.
EditRank(ops, n) == Cardinality({m \in NonEqual(ops) : m <= n})

\* The mask has an entry for every non-equal opcode and each is v.
MaskIsAll(mask, ops, v) ==
    /\ Len(mask) >= Cardinality(NonEqual(ops))
    /\ \A k \in 1..Cardinality(NonEqual(ops)) : mask[k] = v

(* C2: with a mask that is true for every non-equal opcode, the merge      *)
(* returns the tokens of the corrected text joined by single spaces.       *)
C2_AllTrueGivesCorrected ==
    (dPc = "applied" /\ MaskIsAll(dMask, dOps, TRUE)) => dOut = JoinSpace(dC)

\* An all-true mask was applied to a script with a replace, or an insert
\* and a delete, and the texts differ.
C2_Witness ==
    /\ dPc = "applied"
    /\ MaskIsAll(dMask, dOps, TRUE)
    /\ Cardinality(NonEqual(dOps)) = 2
    /\ \E n \in NonEqual(dOps) : dOps[n].tag = "delete"
    /\ \E n \in 1..Len(dOps) : dOps[n].tag = "equal"
    /\ dOut # JoinSpace(dO)

(* C3: with a mask that is false for every non-equal opcode, the merge     *)
(* returns the tokens of the original text joined by single spaces.        *)
C3_AllFalseGivesOriginal ==
    (dPc = "applied" /\ MaskIsAll(dMask, dOps, FALSE)) => dOut = JoinSpace(dO)

\* An all-false mask was applied to a script with two edits, one an insert.
C3_Witness ==
    /\ dPc = "applied"
    /\ MaskIsAll(dMask, dOps, FALSE)
    /\ Cardinality(NonEqual(dOps)) = 2
    /\ \E n \in NonEqual(dOps) : dOps[n].tag = "insert"
    /\ dOut # JoinSpace(dC)

\* What the claim gives the opcode at position n under the mask: the k-th
\* non-equal opcode is accepted when the mask has a k-th entry and it is
\* true.
Expected(ops, n, mask, o, c) ==
    LET op == ops[n]
        k  == EditRank(ops, n)
        accepted == k <= Len(mask) /\ mask[k]
    IN  CASE op.tag = "equal" -> Slice(o, op.i1, op.i2)
          [] op.tag = "replace" ->
                IF accepted THEN Slice(c, op.j1, op.j2) ELSE Slice(o, op.i1, op.i2)
          [] op.tag = "insert" ->
                IF accepted THEN Slice(c, op.j1, op.j2) ELSE <<>>
          [] op.tag = "delete" ->
                IF accepted THEN <<>> ELSE Slice(o, op.i1, op.i2)

(* C4: for every accept mask of any length, the merge returns the          *)
(* single-space join of, per opcode in script order, the original tokens   *)
(* for equal, and for the k-th non-equal opcode the candidate tokens of an *)
(* accepted replace or insert, the original tokens of a rejected replace   *)
(* or delete, and nothing for an accepted delete or a rejected insert; an  *)
(* entry missing from the mask counts as rejected.                         *)
C4_MergePerOpcode ==
    dPc = "applied" =>
        dOut = JoinSpace(Concat([n \in 1..Len(dOps) |->
                                    Expected(dOps, n, dMask, dO, dC)]))

\* A mask shorter than the edit script, accepting its first edit, was
\* applied: the first edit is taken and the second is not.
C4_Witness ==
    /\ dPc = "applied"
    /\ Cardinality(NonEqual(dOps)) = 2
    /\ dMask = <<TRUE>>
    /\ dOut # JoinSpace(dO)
    /\ dOut # JoinSpace(dC)

\* The ranges of the opcodes with a tag in tags, concatenated: side "a"
\* reads the original ranges, side "b" the candidate ranges.
Replay(ops, tags, side, o, c) ==
    Concat([n \in 1..Len(ops) |->
              IF ops[n].tag \in tags
              THEN (IF side = "a" THEN Slice(o, ops[n].i1, ops[n].i2)
                    ELSE Slice(c, ops[n].j1, ops[n].j2))
              ELSE <<>>])

\* The opcodes tile 0..la and 0..lb from left to right without a gap or an
\* overlap.
Tiles(ops, la, lb) ==
    /\ (ops = <<>>) => (la = 0 /\ lb = 0)
    /\ (ops # <<>>) =>
        /\ ops[1].i1 = 0 /\ ops[1].j1 = 0
        /\ ops[Len(ops)].i2 = la /\ ops[Len(ops)].j2 = lb
        /\ \A n \in 1..Len(ops) :
              /\ ops[n].i1 <= ops[n].i2
              /\ ops[n].j1 <= ops[n].j2
              /\ ops[n].tag \in {"equal", "replace", "insert", "delete"}
              /\ (ops[n].tag = "insert") => ops[n].i1 = ops[n].i2
              /\ (ops[n].tag = "delete") => ops[n].j1 = ops[n].j2
        /\ \A n \in 1..(Len(ops) - 1) :
              /\ ops[n + 1].i1 = ops[n].i2
              /\ ops[n + 1].j1 = ops[n].j2

\* The edit at rank k of diff_pairs is the k-th non-equal opcode.
EditsAreNonEqualOps(edits, ops, o, c) ==
    /\ Len(edits) = Cardinality(NonEqual(ops))
    /\ \A n \in NonEqual(ops) :
        LET e == edits[EditRank(ops, n)]
        IN  /\ e.type = ops[n].tag
            /\ <<e.i1, e.i2, e.j1, e.j2>>
                  = <<ops[n].i1, ops[n].i2, ops[n].j1, ops[n].j2>>
            /\ e.before_tokens = Slice(o, ops[n].i1, ops[n].i2)
            /\ e.after_tokens = Slice(c, ops[n].j1, ops[n].j2)

(* C5: the opcodes cover every index of both token sequences exactly once  *)
(* from left to right: the original ranges of equal, replace and delete    *)
(* rebuild the original, the candidate ranges of equal, replace and insert *)
(* rebuild the candidate, and diff_pairs lists the non-equal opcodes in    *)
(* order.                                                                  *)
C5_OpcodesCover ==
    dPc \in {"diffed", "applied"} =>
        /\ Tiles(dOps, Len(dO), Len(dC))
        /\ Replay(dOps, {"equal", "replace", "delete"}, "a", dO, dC) = dO
        /\ Replay(dOps, {"equal", "replace", "insert"}, "b", dO, dC) = dC
        /\ EditsAreNonEqualOps(dEdits, dOps, dO, dC)

\* Two texts were diffed whose script ends in an edit after an equal run.
C5_Witness ==
    /\ dPc = "diffed"
    /\ Len(dOps) >= 3
    /\ dOps[Len(dOps)].tag # "equal"
    /\ Len(dEdits) = 2

--------------------------------------------------------------------------
(* The claims about get_gemini_analysis read how a finished call ended.    *)

\* Every candidate model raised.
AllModelsRaise == \A n \in 1..Len(MODEL_CANDIDATES) : pBehaviour[n] \in ProviderErrors

\* The text the call worked on: that of the first model that answered.
pText == try_models(pApiKey, pBehaviour, pRaw).text

(* C7: a failure of the provider (every model call raising) never leaves   *)
(* the correction request as an exception: get_gemini_analysis ends with   *)
(* zero suggestions.                                                       *)
C7_ProviderFailureGivesNoSuggestions ==
    (pPc = "done" /\ pApiKey # <<>> /\ AllModelsRaise) =>
        (~pResult.raised /\ pResult.suggestions = <<>>)

(* C8: every suggestion get_gemini_analysis returns has a confidence       *)
(* within [0, 1].                                                          *)
C8_ConfidenceInRange ==
    (pPc = "done" /\ ~pResult.raised) =>
        \A n \in 1..Len(pResult.suggestions) :
            LET c == pResult.suggestions[n].confidence
            IN  0 <= c.num /\ c.num <= c.den

\* A JSON list of objects can be parsed from the text.
HoldsListOfObjects(text) ==
    LET data == json_from_text(text)
    IN  data.t = "list" /\ \A n \in 1..Len(data.items) : data.items[n].t = "obj"

(* C9: whenever no JSON list of suggestion objects can be parsed from the  *)
(* provider's response, get_gemini_analysis returns exactly one            *)
(* suggestion: the stripped raw response with confidence 0.7.              *)
C9_FallbackToOneSuggestion ==
    (pPc = "done" /\ pApiKey # <<>> /\ ~AllModelsRaise
                  /\ ~HoldsListOfObjects(pText)) =>
        /\ ~pResult.raised
        /\ pResult.suggestions =
              <<[corrected |-> Strip(pText), confidence |-> [num |-> 7, den |-> 10]]>>

--------------------------------------------------------------------------
(* The claims about the session.                                           *)

\* The fenced code blocks of a text.
CodeBlocksOf(text) ==
    {mask_code_blocks(text).blocks[n].block :
        n \in 1..Len(mask_code_blocks(text).blocks)}

(* C6: fenced code blocks are preserved: when Apply Suggestion writes the  *)
(* merge of the editor's text and a corrected text that still holds every  *)
(* fenced block of it (the provider returned the placeholders untouched),  *)
(* the text written to the editor holds every fenced block of the text it  *)
(* replaces, character for character.                                      *)
C6_ApplyKeepsCodeBlocks ==
    (/\ lastApply.written
     /\ \A block \in CodeBlocksOf(lastApply.from) :
            Contains(lastApply.corrected, block))
        => \A block \in CodeBlocksOf(lastApply.from) : Contains(user_text, block)

(* C10, as stated: in every reachable session state every entry of the     *)
(* history is a corrected text the user applied with Apply Suggestion.     *)
C10_HistoryHoldsAccepted ==
    \A n \in 1..Len(history) : history[n] \in applied

(* C10, amended: the history takes the corrected text of the first         *)
(* suggestion of every correction round that returns a suggestion, when    *)
(* the round returns and whether or not the user applies it: a run of the  *)
(* script that displays results appends the first of them, and a run that  *)
(* displays none leaves the history as it is.                              *)
C10_HistoryHoldsGenerated ==
    [][history' = IF results' # <<>>
                  THEN Append(history, results'[1].corrected)
                  ELSE history]_vars

\* The history holds two generated texts and the user has applied nothing;
\* the round before this one displayed two suggestions.
C10_Witness ==
    /\ Len(history) = 2
    /\ applied = {}
    /\ Len(results) = 2
    /\ history[2] = results[1].corrected

\* a is a prefix of b.
IsPrefix(a, b) == Len(a) <= Len(b) /\ SubSeq(b, 1, Len(a)) = a

\* The view of the history shows its most recent entries, at most
\* HistoryWindow of them, newest first, each under its 1-based position in
\* the history.
ViewShowsRecent(hist, view) ==
    /\ Len(view) = IF Len(hist) < HistoryWindow THEN Len(hist) ELSE HistoryWindow
    /\ \A i \in 1..Len(view) :
          /\ view[i].label = Len(hist) - i + 1
          /\ view[i].text = hist[Len(hist) - i + 1]

(* C11: the history is append-only: over every run of the script (get      *)
(* suggestions, apply, restore, batch correction, rerun) the history       *)
(* before is a prefix of the history after; the history view shows at most *)
(* the 6 most recent entries, newest first, each labelled with its 1-based *)
(* position in the full history; and a run in which Restore took a version *)
(* leaves the editor text equal to exactly that entry.                     *)
C11_HistoryAppendOnly ==
    [][/\ IsPrefix(history, history')
       /\ ViewShowsRecent(history', history_view(history'))
       /\ (lastRestore' # 0) =>
            /\ lastRestore' \in 1..Len(history')
            /\ user_text' = history'[lastRestore']]_vars

\* The history is longer than the view, and Restore has taken the oldest
\* version the view shows, which differs from the newest.
C11_Witness ==
    /\ Len(history) > HistoryWindow
    /\ lastRestore = Len(history) - HistoryWindow + 1
    /\ user_text = history[lastRestore]
    /\ user_text # history[Len(history)]
    /\ pending

\* No key of the block map occurs in the text.
NoKeyOccurs(text, blocks) ==
    \A n \in 1..Len(blocks) : ~Contains(text, blocks[n].key)

(* C12: unmask_code_blocks is idempotent and best-effort: for every text t *)
(* and block map b, unmasking the unmasked text again changes nothing, and *)
(* a text whose placeholders have no key in b comes back unchanged.        *)
C12_UnmaskIdempotent ==
    /\ (mPc = "twice") => mOut = mText
    /\ (mPc = "once" /\ NoKeyOccurs(mText, mBlocks)) => mOut = mText

(* C13: with an empty API key a correction request is refused before any  *)
(* provider call: a run of the script that makes a request with an empty   *)
(* key reports the error, calls no model, does not raise, displays no      *)
(* suggestion, and leaves the history and last_suggestions as they were;   *)
(* the editor text changes only by what the user typed or restored.        *)
C13_MissingKeyRefused ==
    [][(request' = "refused" \/ (apiKey' = <<>> /\ request' # "none")) =>
          /\ request' = "refused"
          /\ apiKey' = <<>>
          /\ apiCalls' = <<>>
          /\ ~crashed'
          /\ results' = <<>>
          /\ history' = history
          /\ last_suggestions' = last_suggestions
          /\ ~lastApply'.written
          /\ \/ user_text' = user_text
             \/ user_text' \in SessionTexts
             \/ lastRestore' # 0]_vars

\* A request was refused in a session that holds a text, a history and
\* suggestions from the time it had a key.
C13_Witness ==
    /\ request = "refused"
    /\ apiKey = <<>>
    /\ Strip(user_text) # <<>>
    /\ history # <<>>
    /\ last_suggestions # <<>>
    /\ results = <<>>

\* The first candidate whose call does not raise, 0 when all raise.
FirstAnswering ==
    MinOr({n \in 1..Len(MODEL_CANDIDATES) : pBehaviour[n] \notin ProviderErrors}, 0)

\* What a candidate's call gives back when it does not raise.
OutputOf(n) == IF pBehaviour[n] = "text" THEN pRaw ELSE ReprOfResponse

\* _try_models on the inputs of the run.
pTried == try_models(pApiKey, pBehaviour, pRaw)

(* C14: _try_models calls the candidates in list order; the first one      *)
(* whose call does not raise ends the loop, its output is what is          *)
(* returned and no later candidate is called; only when every candidate    *)
(* has raised does it raise, RuntimeError carrying the error of the last   *)
(* candidate.                                                              *)
C14_FirstAnsweringModelWins ==
    (pPc = "done" /\ pApiKey # <<>>) =>
        IF FirstAnswering # 0
        THEN /\ ~pTried.raised
             /\ pTried.calls = SubSeq(MODEL_CANDIDATES, 1, FirstAnswering)
             /\ pTried.text = OutputOf(FirstAnswering)
             /\ pResult.calls = pTried.calls
             /\ pResult.error.type # "RuntimeError"
        ELSE /\ pTried.raised
             /\ pTried.calls = MODEL_CANDIDATES
             /\ pTried.error =
                   [type |-> "RuntimeError",
                    last |-> pBehaviour[Len(MODEL_CANDIDATES)]]
             /\ pResult.raised
             /\ pResult.calls = MODEL_CANDIDATES
             /\ pResult.error = pTried.error

\* The first candidate raised and the second answered with a text, which
\* ended the loop before the third was called.
C14_Witness ==
    /\ pPc = "done"
    /\ pApiKey # <<>>
    /\ pBehaviour[1] \in ProviderErrors
    /\ pBehaviour[2] = "text"
    /\ pRaw # <<>>
    /\ pResult.calls = SubSeq(MODEL_CANDIDATES, 1, 2)
    /\ pTried.text = pRaw

==========================================================================
